---- MODULE Spec2Model ----
(***************************************************************************)
(* Model of toxcore/network.c (build with TOX_ENABLE_IPV6, non-WIN32):     *)
(* the IP / IP_Port address model, new_networking / kill_networking,       *)
(* sendpacket, receivepacket, networking_registerhandler, networking_poll  *)
(* and the address parsing / resolving helpers.                            *)
(*                                                                         *)
(* Memory is modelled byte-exactly where the code depends on it: an IP is  *)
(* a family plus the 16 bytes of the ip4/ip6 union (ip4 = bytes 1..4),     *)
(* 16-bit and 32-bit values are stored in host byte order, which is a      *)
(* variable of the model (little_endian).                                  *)
(***************************************************************************)
EXTENDS Integers, Sequences, FiniteSets, TLC

\* The field names of the records of the model, in the order in which every
\* record of the model lists its fields.
Fields ==
    [a |-> 0, addr |-> 0, address |-> 0, addrsize |-> 0, ai_addr |-> 0,
     ai_addrlen |-> 0, ai_family |-> 0, b |-> 0, data |-> 0, family |-> 0,
     flag |-> 0, function |-> 0, ip |-> 0, ip4 |-> 0, ip6 |-> 0, ip_port |-> 0, length |-> 0,
     lit |-> 0, loc |-> 0, null |-> 0, object |-> 0, ok |-> 0, op |-> 0,
     osret |-> 0, packethandlers |-> 0, port |-> 0, rc |-> 0, records |-> 0,
     rest |-> 0, ret |-> 0, sendto |-> 0, server |-> 0, size |-> 0, sock |-> 0, src |-> 0,
     str |-> 0, text |-> 0, to |-> 0, tries |-> 0, u |-> 0]

VARIABLES
    little_endian,   \* byte order of the host the program was built for
    at_startup_ran,  \* uint8_t at_startup_ran (line 200)
    startups,        \* how many times at_startup has seeded the RNG
    pc,              \* "idle", "bind" (inside new_networking's loop), "poll"
    net,             \* the Networking_Core the caller holds, or NULL
    temp,            \* new_networking: Networking_Core under construction
    nn,              \* new_networking: its locals ip, port, addr, tries
    nn_ret,          \* what the last new_networking call returned
    errmsg,          \* what the failure printf of new_networking reported
    os_open,         \* OS: set of open socket descriptors
    os_bound,        \* OS: descriptor -> port it is bound to (host order)
    bind_log,        \* OS: the bind() calls of the current/last new_networking: port, answer
    ncalls,          \* number of new_networking calls made so far
    rcvq,            \* OS: receive queue of the socket
    pl,              \* networking_poll: its locals ip_port, data, length
    calls,           \* handler invocations of the current/last networking_poll
    recvd,           \* OS: what each recvfrom call of the current/last poll took off the queue
    lastreg,         \* tag -> arguments of the latest registerhandler call, if any
    sent,            \* the last sendpacket call: arguments, sendto calls, result
    out              \* the last call of a pure address function and its result

vars == <<little_endian, at_startup_ran, startups, pc, net, temp, nn, nn_ret,
          errmsg, os_open, os_bound, bind_log, ncalls, rcvq, pl,
          calls, recvd, lastreg, sent, out>>

netvars == <<at_startup_ran, startups, pc, net, temp, nn, nn_ret, errmsg,
             os_open, os_bound, bind_log, ncalls, rcvq, pl, calls,
             recvd, lastreg, sent>>

----------------------------------------------------------------------------
(* Bounds of the model *)

MaxQueue == 3        \* datagrams the OS receive queue holds at most
MaxCalls == 3        \* new_networking calls per behaviour
MaxReplies == 1      \* replies queued at a time for the packets sent

(* Platform and program constants *)

AF_UNSPEC == 0
AF_INET == 2
AF_INET6 == 10
SIZEOF_SOCKADDR_IN == 16
SIZEOF_SOCKADDR_IN6 == 28
MAX_TRIES == 9
MAX_UDP_PACKET_SIZE == 65507

\* some address family that is neither AF_INET nor AF_INET6
AF_OTHER == CHOOSE f \in 1..255 : f # AF_INET /\ f # AF_INET6

\* a null pointer to a struct; null function and object pointers are 0
NULL == [null |-> TRUE]

Byte == 0..255

----------------------------------------------------------------------------
(* Byte order *)

bswap16(x) == (x % 256) * 256 + (x \div 256)

htons(x) == IF little_endian THEN bswap16(x) ELSE x

ntohs(x) == IF little_endian THEN bswap16(x) ELSE x

\* a uint32_t is written as its four base-256 digits, most significant first
U32(d3, d2, d1, d0) == << d3, d2, d1, d0 >>

Reverse4(b) == << b[4], b[3], b[2], b[1] >>

\* htonl left out
htonl_Missing(x) == x

htonl(x) == IF little_endian THEN Reverse4(x) ELSE x

\* the four bytes a uint32_t occupies in memory
Store32(v) == IF little_endian THEN Reverse4(v) ELSE v

\* the uint32_t four bytes of memory hold
Load32(b) == IF little_endian THEN Reverse4(b) ELSE b

----------------------------------------------------------------------------
(* IP: { sa_family_t family; union { IP4 ip4; IP6 ip6; } }                 *)
(* field u holds the 16 bytes of the union                                 *)

Zero16 == [i \in 1..16 |-> 0]

IP4Of(ip) == SubSeq(ip.u, 1, 4)                   \* ip.ip4

SetIP4(u, b4) == [i \in 1..16 |-> IF i <= 4 THEN b4[i] ELSE u[i]]

MkIP(family, u) == [family |-> family, u |-> u]

IP4Values == { <<0, 0, 0, 0>>, <<127, 0, 0, 1>>, <<1, 2, 3, 4>>, <<255, 255, 255, 254>> }

----------------------------------------------------------------------------
(* Networking_Core and the socket addresses handed to the OS               *)

Handler(cb, object) == [function |-> cb, object |-> object]

\* packethandlers[256]: the model lists the slots that were written; calloc
\* zeroed the others
NoHandlers == << >>

Slot(handlers, byte) ==
    IF byte \in DOMAIN handlers THEN handlers[byte] ELSE Handler(0, 0)

\* struct sockaddr_in / sockaddr_in6 as the OS sees it; port holds sin_port
\* as the uint16_t the program wrote (network byte order in memory)
SockAddr(family, port, addr) == [addr |-> addr, family |-> family, port |-> port]

Fds == 3..(3 + MaxCalls)

\* socket(): the lowest unused descriptor
NewFd == CHOOSE fd \in Fds \ os_open : \A g \in Fds \ os_open : fd <= g

NoPollLocals == [data |-> << >>, ip_port |-> NULL, length |-> 0]

\* the locals of a networking_poll that returned are gone, and the record of
\* its handler invocations and recvfrom calls ends with the caller's next call
ForgetPoll ==
    /\ pl' = NoPollLocals
    /\ calls' = << >>
    /\ recvd' = << >>

NoLocals == [addr |-> NULL, ip |-> NULL, port |-> 0, tries |-> 0]

\* at_startup without the at_startup_ran flag
at_startup_NoFlag ==
    /\ startups' = startups + 1
    /\ at_startup_ran' = at_startup_ran

\* at_startup(), non-WIN32: seeds the RNG unless the flag says it was done
at_startup ==
    IF at_startup_ran # 0
    THEN /\ at_startup_ran' = at_startup_ran
         /\ startups' = startups
    ELSE /\ startups' = startups + 1
         /\ at_startup_ran' = 1

\* the address new_networking hands to bind() (lines 310-342)
BindAddr(ip, port) ==
    IF ip.family = AF_INET
    THEN SockAddr(AF_INET, htons(port), IP4Of(ip))
    ELSE SockAddr(AF_INET6, htons(port), ip.u)

\* new_networking up to the bind loop (lines 237-353).  calloc_ok and
\* socket_ok are the outcomes of calloc() and socket().
NewNetworking(ip, port, calloc_ok, socket_ok) ==
    /\ pc = "idle"
    /\ net = NULL
    /\ ncalls < MaxCalls
    /\ ncalls' = ncalls + 1
    /\ bind_log' = << >>
    /\ errmsg' = NULL
    /\ IF ip.family # AF_INET /\ ip.family # AF_INET6
       THEN /\ nn_ret' = "NULL"
            /\ nn' = NoLocals
            /\ UNCHANGED <<at_startup_ran, startups, pc, temp, os_open, lastreg>>
       ELSE /\ at_startup
            /\ IF ~calloc_ok \/ ~socket_ok
               THEN /\ nn_ret' = "NULL"          \* temp is NULL, or freed (line 276)
                    /\ nn' = NoLocals
                    /\ UNCHANGED <<pc, temp, os_open, lastreg>>
               ELSE /\ temp' = [family |-> ip.family, packethandlers |-> NoHandlers,
                                port |-> 0, sock |-> NewFd]
                    /\ os_open' = os_open \cup {NewFd}
                    /\ nn' = [addr |-> BindAddr(ip, port), ip |-> ip, port |-> port,
                              tries |-> 0]
                    /\ nn_ret' = "running"
                    /\ lastreg' = << >>
                    /\ pc' = "bind"
    /\ ForgetPoll
    /\ UNCHANGED <<little_endian, net, os_bound, rcvq, sent, out>>

\* NextPort incrementing the network-order value without converting it
NextPort_NoConversion(sin_port) == (sin_port + 1) % 65536

\* the port the next attempt uses after a refused bind (lines 369-371)
NextPort(sin_port) == htons((ntohs(sin_port) + 1) % 65536)

\* the port new_networking records in the Networking_Core (line 365)
RecordedPort(sin_port) == sin_port

\* one iteration of the bind loop (lines 360-372).  accept is the OS's answer,
\* eph the port the OS picks when asked for port 0.
BindTry(accept, eph) ==
    /\ pc = "bind"
    /\ nn.tries < MAX_TRIES
    /\ bind_log' = Append(bind_log, [ok |-> accept, port |-> ntohs(nn.addr.port)])
    /\ IF accept
       THEN /\ net' = [temp EXCEPT !.port = RecordedPort(nn.addr.port)]
            /\ os_bound' = [os_bound EXCEPT ![temp.sock] =
                              IF ntohs(nn.addr.port) = 0 THEN eph
                              ELSE ntohs(nn.addr.port)]
            /\ temp' = NULL
            /\ nn_ret' = "socket"
            /\ pc' = "idle"
            /\ nn' = [nn EXCEPT !.addr = NULL]
       ELSE /\ nn' = [nn EXCEPT !.addr.port = NextPort(@), !.tries = @ + 1]
            /\ UNCHANGED <<net, os_bound, temp, nn_ret, pc>>
    /\ UNCHANGED <<little_endian, at_startup_ran, startups, errmsg, os_open, ncalls,
                   rcvq, pl, calls, recvd, lastreg, sent, out>>

\* the port the failure message reports (line 374): the parameter port; the
\* loop's own "uint16_t port" is out of scope there
ReportedPort == nn.port

\* the handles open after new_networking gave up (lines 374-376): free(temp)
\* only, the descriptor is not closed
OpenAfterBindFail == os_open

\* the loop ran out of tries (lines 374-376)
BindFail ==
    /\ pc = "bind"
    /\ nn.tries >= MAX_TRIES
    /\ errmsg' = [ip |-> nn.ip, port |-> ReportedPort]
    /\ os_open' = OpenAfterBindFail
    /\ temp' = NULL
    /\ nn_ret' = "NULL"
    /\ pc' = "idle"
    /\ nn' = [nn EXCEPT !.addr = NULL]
    /\ UNCHANGED <<little_endian, at_startup_ran, startups, net, os_bound, bind_log,
                   ncalls, rcvq, pl, calls, recvd, lastreg, sent, out>>

\* kill_networking (lines 380-389)
KillNetworking ==
    /\ pc = "idle"
    /\ net # NULL
    /\ os_open' = os_open \ {net.sock}
    /\ os_bound' = [os_bound EXCEPT ![net.sock] = -1]
    /\ rcvq' = << >>
    /\ net' = NULL
    /\ ForgetPoll
    /\ UNCHANGED <<little_endian, at_startup_ran, startups, pc, temp, nn, nn_ret, errmsg,
                   bind_log, ncalls, lastreg, sent, out>>

----------------------------------------------------------------------------
(* Datagram I/O *)

IPPort(ip, port) == [ip |-> ip, port |-> port]

Min(a, b) == IF a <= b THEN a ELSE b

\* an IPv4 address as the IPv4-in-IPv6 address sendpacket builds (lines 89-92):
\* four 32-bit stores into sin6_addr.s6_addr32[0..3]
MappedAddr(ip4) == Store32(U32(0, 0, 0, 0)) \o Store32(U32(0, 0, 0, 0))
                   \o Store32(htonl(U32(0, 0, 255, 255))) \o Store32(Load32(ip4))

\* SendAddr without the check of lines 71-72
SendAddr_NoFamilyCheck(family, ip_port) ==
    IF ip_port.ip.family = AF_INET
    THEN IF family = AF_INET6
         THEN SockAddr(AF_INET6, ip_port.port, MappedAddr(IP4Of(ip_port.ip)))
         ELSE SockAddr(AF_INET, ip_port.port, IP4Of(ip_port.ip))
    ELSE IF ip_port.ip.family = AF_INET6
         THEN SockAddr(AF_INET6, ip_port.port, ip_port.ip.u)
         ELSE NULL

\* the socket address sendpacket hands to sendto (lines 75-123), NULL when it
\* returns 0 without sending
SendAddr(family, ip_port) ==
    IF family = AF_INET /\ ip_port.ip.family # AF_INET
    THEN NULL
    ELSE IF ip_port.ip.family = AF_INET
         THEN IF family = AF_INET6
              THEN SockAddr(AF_INET6, ip_port.port, MappedAddr(IP4Of(ip_port.ip)))
              ELSE SockAddr(AF_INET, ip_port.port, IP4Of(ip_port.ip))
         ELSE IF ip_port.ip.family = AF_INET6
              THEN SockAddr(AF_INET6, ip_port.port, ip_port.ip.u)
              ELSE NULL

SendAddrSize(addr) ==
    IF addr.family = AF_INET THEN SIZEOF_SOCKADDR_IN ELSE SIZEOF_SOCKADDR_IN6

\* sendpacket (lines 67-126).  osret is what sendto() returns.
SendPacket(ip_port, data, osret) ==
    /\ pc = "idle"
    /\ net # NULL
    /\ LET addr == SendAddr(net.family, ip_port) IN
         sent' = IF addr = NULL
                 THEN [family |-> net.family, ip_port |-> ip_port, ret |-> 0,
                       sendto |-> << >>]
                 ELSE [family |-> net.family, ip_port |-> ip_port, ret |-> osret,
                       sendto |-> << [addr |-> addr,
                                      addrsize |-> SendAddrSize(addr),
                                      data |-> data, length |-> Len(data),
                                      osret |-> osret, sock |-> net.sock] >>]
    /\ ForgetPoll
    /\ UNCHANGED <<little_endian, at_startup_ran, startups, pc, net, temp, nn, nn_ret,
                   errmsg, os_open, os_bound, bind_log, ncalls, rcvq, lastreg, out>>

\* RecvEndpoint as the build without TOX_ENABLE_IPV6 has it (lines 167-173)
RecvEndpoint_V4Only(src, old) ==
    IF src.family = AF_INET
    THEN IPPort(MkIP(src.family, SetIP4(old.ip.u, src.addr)), src.port)
    ELSE NULL

\* the Endpoint receivepacket decodes from the sender's socket address
\* (lines 151-165); old is what *ip_port held before; NULL when the family is
\* not recognised
RecvEndpoint(src, old) ==
    IF src.family = AF_INET
    THEN IPPort(MkIP(src.family, SetIP4(old.ip.u, src.addr)), src.port)
    ELSE IF src.family = AF_INET6
         THEN IPPort(MkIP(src.family, src.addr), src.port)
         ELSE NULL

\* receivepacket leaving a datagram it fails on at the head of the queue
receivepacket_KeepsBad(q, loc) ==
    IF q = << >>
    THEN [loc |-> [loc EXCEPT !.length = -1], rest |-> q, ret |-> -1]
    ELSE LET d == Head(q)
             n == Min(Len(d.data), MAX_UDP_PACKET_SIZE)
             ep == RecvEndpoint(d.src, loc.ip_port)
         IN  IF n <= 0
             THEN [loc |-> [loc EXCEPT !.length = n], rest |-> q, ret |-> -1]
             ELSE IF ep = NULL
                  THEN [loc |-> [loc EXCEPT !.length = n, !.data = SubSeq(d.data, 1, n)],
                        rest |-> q, ret |-> -1]
                  ELSE [loc |-> [data |-> SubSeq(d.data, 1, n), ip_port |-> ep,
                                 length |-> n],
                        rest |-> Tail(q), ret |-> 0]

\* receivepacket (lines 137-177) on receive queue q, with loc the caller's
\* ip_port, data and length.  length is a uint32_t written through an int32_t
\* pointer: the model keeps the int32_t.  rest is the queue afterwards.
receivepacket(q, loc) ==
    IF q = << >>
    THEN [loc |-> [loc EXCEPT !.length = -1], rest |-> q, ret |-> -1]
    ELSE LET d == Head(q)
             n == Min(Len(d.data), MAX_UDP_PACKET_SIZE)
             ep == RecvEndpoint(d.src, loc.ip_port)
         IN  IF n <= 0
             THEN [loc |-> [loc EXCEPT !.length = n], rest |-> Tail(q), ret |-> -1]
             ELSE IF ep = NULL
                  THEN [loc |-> [loc EXCEPT !.length = n, !.data = SubSeq(d.data, 1, n)],
                        rest |-> Tail(q), ret |-> -1]
                  ELSE [loc |-> [data |-> SubSeq(d.data, 1, n), ip_port |-> ep,
                                 length |-> n],
                        rest |-> Tail(q), ret |-> 0]

\* RegSlot off by one
RegSlot_OffByOne(byte) == (byte + 1) % 256

\* the slot networking_registerhandler writes (lines 181-182)
RegSlot(byte) == byte

\* networking_registerhandler (lines 179-183)
RegisterHandler(byte, cb, object) ==
    /\ pc = "idle"
    /\ net # NULL
    /\ net' = [net EXCEPT !.packethandlers = (RegSlot(byte) :> Handler(cb, object)) @@ @]
    /\ lastreg' = (byte :> Handler(cb, object)) @@ lastreg
    /\ ForgetPoll
    /\ UNCHANGED <<little_endian, at_startup_ran, startups, pc, temp, nn, nn_ret, errmsg,
                   os_open, os_bound, bind_log, ncalls, rcvq, sent, out>>

\* networking_poll is entered (lines 187-189): its locals are uninitialised,
\* garbage is what the stack holds
PollBegin(garbage) ==
    /\ pc = "idle"
    /\ net # NULL
    /\ pc' = "poll"
    /\ pl' = [data |-> << >>, ip_port |-> garbage, length |-> 0]
    /\ calls' = << >>
    /\ recvd' = << >>
    /\ UNCHANGED <<little_endian, at_startup_ran, startups, net, temp, nn, nn_ret,
                   errmsg, os_open, os_bound, bind_log, ncalls, rcvq, lastreg, sent,
                   out>>

\* "length < 1" on the uint32_t: a negative int32_t is a large uint32_t
LengthBelow1(length) == length >= 0 /\ length < 1

\* Dispatch handing the handler the payload behind the tag byte
Dispatch_NoTag(handlers, loc) ==
    IF LengthBelow1(loc.length)
    THEN << >>
    ELSE IF Slot(handlers, loc.data[1]).function = 0
         THEN << >>
         ELSE << [data |-> Tail(loc.data),
                  function |-> Slot(handlers, loc.data[1]).function,
                  ip_port |-> loc.ip_port, length |-> loc.length - 1,
                  object |-> Slot(handlers, loc.data[1]).object] >>

\* Dispatch calling the handler twice
Dispatch_Twice(handlers, loc) ==
    IF LengthBelow1(loc.length)
    THEN << >>
    ELSE IF Slot(handlers, loc.data[1]).function = 0
         THEN << >>
         ELSE LET call == [data |-> loc.data,
                           function |-> Slot(handlers, loc.data[1]).function,
                           ip_port |-> loc.ip_port, length |-> loc.length,
                           object |-> Slot(handlers, loc.data[1]).object]
              IN  << call, call >>

\* the handler invocations one received packet causes (lines 192-196)
Dispatch(handlers, loc) ==
    IF LengthBelow1(loc.length)
    THEN << >>
    ELSE IF Slot(handlers, loc.data[1]).function = 0
         THEN << >>
         ELSE << [data |-> loc.data,
                  function |-> Slot(handlers, loc.data[1]).function,
                  ip_port |-> loc.ip_port, length |-> loc.length,
                  object |-> Slot(handlers, loc.data[1]).object] >>

\* the table networking_poll leaves behind after one iteration: it only reads
PollHandlers(handlers) == handlers

\* PollIter on a socket left blocking: recvfrom waits for a datagram
PollIter_Blocking ==
    /\ pc = "poll"
    /\ rcvq # << >>
    /\ LET r == receivepacket(rcvq, pl) IN
         /\ rcvq' = r.rest
         /\ pl' = r.loc
         /\ recvd' = Append(recvd, Head(rcvq))
         /\ IF r.ret = -1
            THEN /\ pc' = "idle"
                 /\ calls' = calls
            ELSE /\ pc' = "poll"
                 /\ calls' = calls \o Dispatch(net.packethandlers, r.loc)
    /\ net' = [net EXCEPT !.packethandlers = PollHandlers(@)]
    /\ UNCHANGED <<little_endian, at_startup_ran, startups, temp, nn, nn_ret, errmsg,
                   os_open, os_bound, bind_log, ncalls, lastreg, sent, out>>

\* one iteration of the loop of networking_poll (lines 191-197): the
\* receivepacket call, and either the return or the dispatch
PollIter ==
    /\ pc = "poll"
    /\ LET r == receivepacket(rcvq, pl) IN
         /\ rcvq' = r.rest
         /\ pl' = r.loc
         /\ recvd' = Append(recvd, IF rcvq = << >> THEN NULL ELSE Head(rcvq))
         /\ IF r.ret = -1
            THEN /\ pc' = "idle"
                 /\ calls' = calls
            ELSE /\ pc' = "poll"
                 /\ calls' = calls \o Dispatch(net.packethandlers, r.loc)
    /\ net' = [net EXCEPT !.packethandlers = PollHandlers(@)]
    /\ UNCHANGED <<little_endian, at_startup_ran, startups, temp, nn, nn_ret, errmsg,
                   os_open, os_bound, bind_log, ncalls, lastreg, sent, out>>

\* the OS queues a datagram for the socket, between two calls of the program
Arrive(d) ==
    /\ pc = "idle"
    /\ net # NULL
    /\ Len(rcvq) < MaxQueue
    /\ d.src.family \in {net.family, AF_OTHER}
    /\ rcvq' = Append(rcvq, d)
    /\ ForgetPoll
    /\ UNCHANGED <<little_endian, at_startup_ran, startups, pc, net, temp, nn, nn_ret,
                   errmsg, os_open, os_bound, bind_log, ncalls, lastreg, sent, out>>

----------------------------------------------------------------------------
(* Initial state: the process has started, nothing has been called *)

NoSend == [family |-> AF_UNSPEC, ip_port |-> NULL, ret |-> 0, sendto |-> << >>]

NoOut == [op |-> "none"]

InitNet ==
    /\ at_startup_ran = 0
    /\ startups = 0
    /\ pc = "idle"
    /\ net = NULL
    /\ temp = NULL
    /\ nn = NoLocals
    /\ nn_ret = "none"
    /\ errmsg = NULL
    /\ os_open = {}
    /\ os_bound = [fd \in Fds |-> -1]
    /\ bind_log = << >>
    /\ ncalls = 0
    /\ rcvq = << >>
    /\ pl = NoPollLocals
    /\ calls = << >>
    /\ recvd = << >>
    /\ lastreg = << >>
    /\ sent = NoSend

Init ==
    /\ little_endian \in BOOLEAN
    /\ InitNet
    /\ out = NoOut

----------------------------------------------------------------------------
(* Socket lifecycle: new_networking with every OS outcome, kill_networking *)

BindIPs == { MkIP(AF_UNSPEC, Zero16), MkIP(AF_INET, Zero16), MkIP(AF_INET6, Zero16),
             MkIP(AF_INET, SetIP4(Zero16, <<127, 0, 0, 1>>)) }

LocalPorts == { 0, 33445, 65530, 65535 }

EphemeralPorts == { 32768, 60999 }

NextBind ==
    \/ \E ip \in BindIPs, port \in LocalPorts, c \in BOOLEAN, s \in BOOLEAN :
          NewNetworking(ip, port, c, s)
    \/ \E accept \in BOOLEAN, eph \in EphemeralPorts : BindTry(accept, eph)
    \/ BindFail
    \/ KillNetworking

SpecBind == Init /\ [][NextBind]_vars

----------------------------------------------------------------------------
(* Dispatch: one socket, registrations, arriving datagrams, polls, sends *)

V4a == <<1, 2, 3, 4>>

V4b == <<127, 0, 0, 1>>

V6a == [i \in 1..16 |-> IF i = 16 THEN 1 ELSE 0]

Tail170 == [i \in 1..16 |-> 170]

\* what the OS may queue: tagged payloads, an empty datagram, a sender of a
\* family the code does not know
Datagrams ==
    { [data |-> <<7>>, src |-> SockAddr(AF_INET, 33445, V4a)],
      [data |-> <<8, 200>>, src |-> SockAddr(AF_INET, 1, V4b)],
      [data |-> << >>, src |-> SockAddr(AF_INET, 33445, V4a)],
      [data |-> <<7>>, src |-> SockAddr(AF_INET6, 33445, V6a)],
      [data |-> <<8, 200>>, src |-> SockAddr(AF_INET6, 1, MappedAddr(V4a))],
      [data |-> << >>, src |-> SockAddr(AF_INET6, 33445, V6a)],
      [data |-> <<7>>, src |-> SockAddr(AF_OTHER, 0, << >>)] }

RegTags == { 7, 8 }

RegHandlers == { Handler(1, 5), Handler(2, 6), Handler(0, 5) }

Garbage == { IPPort(MkIP(AF_UNSPEC, Zero16), 0), IPPort(MkIP(AF_INET6, Tail170), 43690) }

SockIPs == { MkIP(AF_INET, Zero16), MkIP(AF_INET6, Zero16) }

Next ==
    \/ \E ip \in SockIPs : NewNetworking(ip, 33445, TRUE, TRUE)
    \/ \E eph \in EphemeralPorts : BindTry(TRUE, eph)
    \/ \E b \in RegTags, h \in RegHandlers : RegisterHandler(b, h.function, h.object)
    \/ \E d \in Datagrams : Arrive(d)
    \/ \E g \in Garbage : PollBegin(g)
    \/ PollIter
    \/ SendPacket(IPPort(MkIP(AF_INET, SetIP4(Zero16, V4a)), 33445), <<7>>, 1)

Spec == Init /\ [][Next]_vars

\* networking_poll is a loop on the caller's thread: once entered, its next
\* iteration is eventually executed
SpecDrain == Init /\ [][Next]_vars /\ WF_vars(PollIter)


----------------------------------------------------------------------------
(* Claims about dispatch *)

\* the handler and context of the latest networking_registerhandler call for tag
RegisteredFor(tag) == IF tag \in DOMAIN lastreg THEN lastreg[tag] ELSE Handler(0, 0)

\* recvfrom delivered datagram d and receivepacket succeeded on it
Received(d) == d # NULL /\ Len(d.data) >= 1 /\ d.src.family \in {AF_INET, AF_INET6}

\* ip_port is the Endpoint of the sender with socket address src
SenderIs(ip_port, src) ==
    /\ ip_port.ip.family = src.family
    /\ ip_port.port = src.port
    /\ IF src.family = AF_INET THEN IP4Of(ip_port.ip) = src.addr
                               ELSE ip_port.ip.u = src.addr

HasHandler(d) == Received(d) /\ RegisteredFor(d.data[1]).function # 0

\* C1: in a drain, every received datagram of length >= 1 whose first byte has a
\* registered (non-null) handler causes exactly one invocation, of the handler
\* registered last for that byte, with its context, the sender's Endpoint and
\* the full payload including the tag byte; a received datagram whose first
\* byte has no handler causes none.  (The invocations of a drain are exactly
\* those of the received datagrams that have a handler, one each.)
C1_DispatchExactlyOnce ==
    LET due == SelectSeq(recvd, HasHandler) IN
      /\ Len(calls) = Len(due)
      /\ \A i \in 1..Len(due) :
           /\ calls[i].function = RegisteredFor(due[i].data[1]).function
           /\ calls[i].object = RegisteredFor(due[i].data[1]).object
           /\ SenderIs(calls[i].ip_port, due[i].src)
           /\ calls[i].data = due[i].data
           /\ calls[i].length = Len(due[i].data)

\* a drain that received two datagrams, dispatched the one tagged 7 and
\* dropped the one whose tag has no handler
C1_Witness ==
    /\ pc = "idle"
    /\ Len(recvd) = 3
    /\ Received(recvd[1]) /\ Received(recvd[2])
    /\ Len(calls) = 1
    /\ calls[1].data[1] = 7
    /\ \E i \in 1..2 : ~HasHandler(recvd[i])

\* C2 as stated: when drain returns the receive queue is empty
C2_DrainEmptiesQueue == (pc = "idle" /\ recvd # << >>) => rcvq = << >>

\* C2, amended: drain goes on exactly as long as receivepacket succeeds and
\* returns at the first attempt that fails; then either nothing was pending
\* and the queue is empty, or the datagram taken by that last attempt was
\* zero-length or from a sender of an unrecognised family
C2_DrainStopsAtFirstFailure ==
    /\ \A i \in 1..Len(recvd) : (i < Len(recvd) \/ pc = "poll") => Received(recvd[i])
    /\ (pc = "idle" /\ recvd # << >>) =>
           /\ ~Received(recvd[Len(recvd)])
           /\ recvd[Len(recvd)] = NULL => rcvq = << >>

\* a drain that returned on a bad datagram and left datagrams queued
C2_Witness ==
    /\ pc = "idle"
    /\ Len(recvd) >= 2
    /\ recvd[Len(recvd)] # NULL
    /\ rcvq # << >>

\* C10: every slot holds the handler and context of the latest
\* networking_registerhandler call for its tag, and is empty if there was none
\* since new_networking: register writes one slot, nothing else writes any
C10_SlotsHoldLatestRegistration ==
    /\ net # NULL => \A b \in Byte : Slot(net.packethandlers, b) = RegisteredFor(b)
    /\ temp # NULL => \A b \in Byte : Slot(temp.packethandlers, b) = Handler(0, 0)

\* a slot was overwritten, another registered, a drain dispatched and a
\* packet was sent
C10_Witness ==
    /\ net # NULL
    /\ Slot(net.packethandlers, 7) = Handler(2, 6)
    /\ Slot(net.packethandlers, 8) = Handler(1, 5)
    /\ calls # << >>
    /\ sent.sendto # << >>
    /\ pc = "idle"

\* invocation c is the dispatch of datagram d
IsDispatchOf(c, d) ==
    /\ HasHandler(d)
    /\ c.data = d.data
    /\ c.length = Len(d.data)
    /\ SenderIs(c.ip_port, d.src)
    /\ c.function = RegisteredFor(d.data[1]).function

\* C11: within one drain the handler invocations happen in the order in which
\* the OS delivered the datagrams, and no datagram is dispatched more than
\* once: the invocations map to the delivered datagrams by a strictly
\* increasing map.  Every invocation is made, and has returned, before the next
\* receive attempt: while the drain goes on, a delivered datagram with a
\* handler has its invocation before anything is taken after it.
C11_DispatchInDeliveryOrder ==
    /\ \E f \in [1..Len(calls) -> 1..Len(recvd)] :
          /\ \A i \in 1..Len(calls) : IsDispatchOf(calls[i], recvd[f[i]])
          /\ \A i \in 1..Len(calls), j \in 1..Len(calls) : i < j => f[i] < f[j]
    /\ (recvd # << >> /\ HasHandler(recvd[Len(recvd)])) =>
          (calls # << >> /\ IsDispatchOf(calls[Len(calls)], recvd[Len(recvd)]))

\* a drain that dispatched three datagrams, tagged 8, 7 and 8, in that order
C11_Witness ==
    /\ pc = "idle"
    /\ Len(calls) = 3
    /\ calls[1].data[1] = 8
    /\ calls[2].data[1] = 7
    /\ calls[3].data[1] = 8
    /\ Len(recvd) = 4

\* the datagrams that were pending when the current/last drain was called:
\* those it has taken and those still queued (none arrive during the call)
PendingAtCall == Len(SelectSeq(recvd, LAMBDA d : d # NULL)) + Len(rcvq)

AttemptsBounded ==
    /\ Len(recvd) <= PendingAtCall + 1
    /\ (recvd # << >> /\ recvd[1] = NULL) =>
          (Len(recvd) = 1 /\ calls = << >> /\ pc = "idle")

\* C16: a drain makes at most (pending datagrams + 1) receive attempts; with
\* nothing pending it makes exactly one attempt and no handler invocation and
\* returns; and every drain that was entered returns
C16_DrainTerminates == []AttemptsBounded /\ ((pc = "poll") ~> (pc = "idle"))

\* a drain on a socket with nothing pending has returned after one attempt
C16_Witness ==
    /\ pc = "idle"
    /\ recvd = << NULL >>
    /\ calls = << >>
    /\ net.packethandlers # NoHandlers

\* C19: a receive attempt in a drain takes exactly the datagram at the head of
\* the queue and leaves the ones behind it queued in order.  If that datagram
\* is zero-length or from a sender of an unrecognised family, no handler is
\* invoked and the drain returns; otherwise the drain goes on and the datagram
\* is dispatched by its own content and the registrations alone, so what was
\* discarded before it makes no difference.  Between drains the queue only
\* grows at its end.
C19_FailedReceiveLosesOnlyThatDatagram ==
    [][ /\ (pc = "poll" /\ rcvq # << >>) =>
             /\ rcvq' = Tail(rcvq)
             /\ IF ~Received(Head(rcvq))
                THEN calls' = calls /\ pc' = "idle"
                ELSE /\ pc' = "poll"
                     /\ IF HasHandler(Head(rcvq))
                        THEN /\ Len(calls') = Len(calls) + 1
                             /\ SubSeq(calls', 1, Len(calls)) = calls
                             /\ IsDispatchOf(calls'[Len(calls')], Head(rcvq))
                        ELSE calls' = calls
        /\ pc = "idle" =>
             (Len(rcvq') >= Len(rcvq) /\ SubSeq(rcvq', 1, Len(rcvq)) = rcvq)
      ]_vars

\* a drain took a bad datagram from the head of the queue and returned
\* without an invocation; a datagram that has a handler is still queued
C19_Witness ==
    /\ pc = "idle"
    /\ Len(recvd) = 1
    /\ recvd[1] # NULL
    /\ ~Received(recvd[1])
    /\ calls = << >>
    /\ rcvq # << >>
    /\ HasHandler(Head(rcvq))

----------------------------------------------------------------------------
(* Claims about new_networking *)

\* the last new_networking call got as far as the bind loop
ReachedBind == nn.ip # NULL

AllRefused == \A i \in 1..Len(bind_log) : ~bind_log[i].ok

\* C3 as stated: at most 9 attempts, attempt i on port local_port + i, return
\* at the first accepted attempt, failure exactly when all 9 were refused
C3_AttemptsOnLocalPortPlusI ==
    ReachedBind =>
      /\ Len(bind_log) <= MAX_TRIES
      /\ \A i \in 1..Len(bind_log) : bind_log[i].port = nn.port + (i - 1)
      /\ \A i \in 1..(Len(bind_log) - 1) : ~bind_log[i].ok
      /\ pc = "bind" => AllRefused
      /\ pc = "idle" =>
           /\ nn_ret = "socket" <=> bind_log[Len(bind_log)].ok
           /\ nn_ret = "NULL" <=> (Len(bind_log) = MAX_TRIES /\ AllRefused)

\* C3, amended: at most 9 attempts; attempt i (i = 0..8) is on port
\* (local_port + i) mod 65536, so the ports wrap from 65535 to 0; the call
\* returns the Socket at the first attempt the OS accepts and makes no further
\* attempt, and once it has its socket it fails exactly when all 9 attempts
\* were refused
C3_AttemptsWrapAt65536 ==
    ReachedBind =>
      /\ Len(bind_log) <= MAX_TRIES
      /\ \A i \in 1..Len(bind_log) : bind_log[i].port = (nn.port + (i - 1)) % 65536
      /\ \A i \in 1..(Len(bind_log) - 1) : ~bind_log[i].ok
      /\ pc = "bind" => AllRefused
      /\ pc = "idle" =>
           /\ nn_ret = "socket" <=> bind_log[Len(bind_log)].ok
           /\ nn_ret = "NULL" <=> (Len(bind_log) = MAX_TRIES /\ AllRefused)

\* a call for port 65530 that was refused until it had wrapped to port 1 and
\* was accepted there
C3_Witness ==
    /\ pc = "idle"
    /\ nn_ret = "socket"
    /\ nn.port = 65530
    /\ Len(bind_log) = 8
    /\ bind_log[8].port = 1

\* C7 as stated: after a successful new_networking the recorded port is the
\* port the OS bound the socket to
C7_RecordedPortIsBoundPort ==
    (net # NULL /\ pc = "idle") => ntohs(net.port) = os_bound[net.sock]

\* C8 as stated: when all 9 attempts were refused, the port reported is the
\* port of the 9th attempt
C8_ReportsLastAttemptedPort ==
    errmsg # NULL => errmsg.port = bind_log[Len(bind_log)].port

\* C17: over any sequence of new_networking calls, successful or failed, the
\* one-time initialisation is performed at most once: it has been performed
\* exactly when the flag is set, and never a second time
C17_StartupAtMostOnce ==
    /\ startups <= 1
    /\ at_startup_ran # 0 <=> startups = 1

\* three new_networking calls were made, the last one failed after all its
\* bind attempts, and the initialisation ran once
C17_Witness ==
    /\ ncalls = 3
    /\ pc = "idle"
    /\ nn_ret = "NULL"
    /\ Len(bind_log) = MAX_TRIES
    /\ startups = 1

\* C20 as stated: whenever no new_networking call is running, the open OS
\* handles are exactly those of the live Sockets: a failed new_networking has
\* closed the handle it opened
C20_OpenHandlesAreLiveSockets ==
    pc = "idle" => os_open = (IF net # NULL THEN {net.sock} ELSE {})

----------------------------------------------------------------------------
(* Sending, and receiving the peer's reply: a peer that got a packet answers *)
(* from the socket address the packet was sent to                           *)

SendIPs ==
    { MkIP(AF_INET, SetIP4(Zero16, a)) : a \in IP4Values }
    \cup { MkIP(AF_INET, SetIP4(Tail170, V4a)), MkIP(AF_INET6, V6a),
           MkIP(AF_INET6, SetIP4(Tail170, V4a)), MkIP(AF_UNSPEC, SetIP4(Zero16, V4a)) }

SendPorts == { 1, 33445 }

\* the peer the last packet went to answers; or a datagram comes from a
\* sender of an unknown family
Replies ==
    { [data |-> <<7>>, src |-> SockAddr(AF_OTHER, 0, << >>)] }
    \cup { [data |-> <<7>>, src |-> sent.sendto[i].addr] :
              i \in { k \in 1..Len(sent.sendto) : sent.sendto[k].osret > 0 } }

Reply(d) == Len(rcvq) < MaxReplies /\ Arrive(d)

NextSend ==
    \/ \E ip \in SockIPs : NewNetworking(ip, 33445, TRUE, TRUE)
    \/ \E eph \in EphemeralPorts : BindTry(TRUE, eph)
    \/ \E ip \in SendIPs, port \in SendPorts, osret \in {-1, 1} :
          SendPacket(IPPort(ip, port), <<7>>, osret)
    \/ \E d \in Replies : Reply(d)
    \/ \E g \in Garbage : PollBegin(g)
    \/ PollIter

SpecSend == Init /\ [][NextSend]_vars

\* C4: an IPv4 destination sent through an IPv6-bound socket goes to the OS as
\* the IPv4-mapped IPv6 address: family IPv6, the destination's port, address
\* bytes 0..9 zero, bytes 10 and 11 0xFF, bytes 12..15 the IPv4 address bytes
C4_IPv4MappedWireAddress ==
    (sent.family = AF_INET6 /\ sent.ip_port # NULL /\ sent.ip_port.ip.family = AF_INET) =>
      /\ Len(sent.sendto) = 1
      /\ LET addr == sent.sendto[1].addr IN
           /\ addr.family = AF_INET6
           /\ addr.port = sent.ip_port.port
           /\ Len(addr.addr) = 16
           /\ \A i \in 1..10 : addr.addr[i] = 0
           /\ addr.addr[11] = 255 /\ addr.addr[12] = 255
           /\ \A i \in 1..4 : addr.addr[12 + i] = sent.ip_port.ip.u[i]

\* 255.255.255.254 was sent through an IPv6 socket on a little-endian host
C4_Witness ==
    /\ little_endian
    /\ sent.family = AF_INET6
    /\ sent.ip_port # NULL
    /\ sent.ip_port.ip.family = AF_INET
    /\ IP4Of(sent.ip_port.ip) = <<255, 255, 255, 254>>
    /\ sent.sendto # << >>

\* C12: sendpacket on an IPv4-bound socket with an IPv6 destination returns 0
\* and makes no sendto call; IPv4 socket to IPv4 destination and IPv6 socket to
\* IPv4 or IPv6 destination make exactly one sendto call, on the socket, with
\* the caller's data, and return what sendto returned
C12_RejectsOrSendsOnce ==
    sent.ip_port # NULL =>
      /\ (sent.family = AF_INET /\ sent.ip_port.ip.family = AF_INET6) =>
             (sent.ret = 0 /\ sent.sendto = << >>)
      /\ (sent.ip_port.ip.family \in {AF_INET, AF_INET6}
            /\ ~(sent.family = AF_INET /\ sent.ip_port.ip.family = AF_INET6)) =>
             /\ Len(sent.sendto) = 1
             /\ sent.ret = sent.sendto[1].osret
             /\ net # NULL => sent.sendto[1].sock = net.sock
             /\ sent.sendto[1].data = <<7>> /\ sent.sendto[1].length = 1

\* an IPv6 destination was refused by an IPv4-bound socket
C12_Witness ==
    /\ sent.ip_port # NULL
    /\ sent.family = AF_INET
    /\ sent.ip_port.ip.family = AF_INET6
    /\ sent.ret = 0

\* two Endpoints are the same: family, port and the address bytes of the family
SameEndpoint(a, b) ==
    /\ a.ip.family = b.ip.family
    /\ a.port = b.port
    /\ IF b.ip.family = AF_INET THEN IP4Of(a.ip) = IP4Of(b.ip) ELSE a.ip.u = b.ip.u

\* C9 as stated: what receivepacket decodes from the wire address sendpacket
\* produced for Endpoint e is e again; a wire address of another family makes
\* receivepacket fail
C9_ReceiveInvertsSend ==
    (pc = "poll" /\ recvd # << >>) =>
      LET d == recvd[Len(recvd)] IN
        /\ d.src.family \in {AF_INET, AF_INET6}
        /\ (sent.sendto # << >> /\ d.src = sent.sendto[1].addr) =>
               SameEndpoint(pl.ip_port, sent.ip_port)

----------------------------------------------------------------------------
(* The address functions: ip_equal, addr_parse_ip, addr_resolve,            *)
(* addr_resolve_or_parse_ip                                                 *)

\* ip_equal (lines 397-413); a, b are IPs or NULL; the result is a C int
ip_equal(a, b) ==
    IF a = NULL \/ b = NULL
    THEN 0
    ELSE IF a.family = AF_INET
         THEN IF IP4Of(a) = IP4Of(b) THEN 1 ELSE 0
         ELSE IF a.family = AF_INET6
              THEN IF a.u = b.u THEN 1 ELSE 0
              ELSE 0

\* ip_isset (lines 460-470); ip is an IP or NULL
ip_isset(ip) ==
    IF ip = NULL
    THEN 0
    ELSE IF ip.family # 0 THEN 1 ELSE 0

\* ipport_isset (lines 473-482); ipport is an IP_Port or NULL
ipport_isset(ipport) ==
    IF ipport = NULL
    THEN 0
    ELSE IF ipport.port = 0
         THEN 0
         ELSE ip_isset(ipport.ip)

\* An address string is modelled by what the C library makes of it: lit is the
\* family inet_pton accepts it for (AF_UNSPEC: none, it is a host name), and
\* records are the addrinfo entries the resolver has for it, in its order.
AddrInfo(ai_family, ai_addrlen, ai_addr) ==
    [ai_addr |-> ai_addr, ai_addrlen |-> ai_addrlen, ai_family |-> ai_family]

Name(lit, records) == [lit |-> lit, records |-> records]

\* inet_pton(af, address, &addr) as called at lines 561 and 568
inet_pton(af, address) ==
    IF address.lit = af
    THEN [addr |-> address.records[1].ai_addr, ret |-> 1]
    ELSE [addr |-> << >>, ret |-> 0]

\* getaddrinfo(address, NULL, &hints, &server) as called at line 633: the
\* entries of the family asked for, all of them for AF_UNSPEC; nonzero rc
\* when there is none
getaddrinfo(address, family) ==
    LET found == SelectSeq(address.records,
                           LAMBDA ai : family = AF_UNSPEC \/ ai.ai_family = family)
    IN  IF found = << >> THEN [rc |-> -2, server |-> << >>]
        ELSE [rc |-> 0, server |-> found]

\* addr_parse_ip (lines 554-582): the result and *to afterwards
addr_parse_ip(address, to) ==
    IF address = NULL \/ to = NULL
    THEN [ret |-> 0, to |-> to]
    ELSE IF inet_pton(AF_INET, address).ret = 1
         THEN [ret |-> 1,
               to |-> MkIP(AF_INET, SetIP4(to.u, inet_pton(AF_INET, address).addr))]
         ELSE IF inet_pton(AF_INET6, address).ret = 1
              THEN [ret |-> 1, to |-> MkIP(AF_INET6, inet_pton(AF_INET6, address).addr)]
              ELSE [ret |-> 0, to |-> to]

\* BitOr assigning the bit instead of or-ing it in
BitOr_Assign(rc, bit) == bit

\* rc |= bit, for rc in 0..3 and bit 1 or 2
BitOr(rc, bit) == IF (rc \div bit) % 2 = 1 THEN rc ELSE rc + bit

\* one pass of the loop body of addr_resolve (lines 651-692) over entry ai;
\* st holds rc, *to and the locals ip4, ip6
WalkStep(family, ai, st) ==
    IF family # AF_UNSPEC
    THEN IF ai.ai_family = family
         THEN IF family = AF_INET
              THEN IF ai.ai_addrlen = SIZEOF_SOCKADDR_IN
                   THEN [st EXCEPT !.to.u = SetIP4(@, ai.ai_addr), !.rc = 3]
                   ELSE st
              ELSE IF family = AF_INET6
                   THEN IF ai.ai_addrlen = SIZEOF_SOCKADDR_IN6
                        THEN [st EXCEPT !.to.u = ai.ai_addr, !.rc = 3]
                        ELSE st
                   ELSE st
         ELSE st
    ELSE IF ai.ai_family = AF_INET
         THEN IF ai.ai_addrlen = SIZEOF_SOCKADDR_IN
              THEN [st EXCEPT !.ip4 = ai.ai_addr, !.rc = BitOr(@, 1)]
              ELSE st
         ELSE IF ai.ai_family = AF_INET6
              THEN IF ai.ai_addrlen = SIZEOF_SOCKADDR_IN6
                   THEN [st EXCEPT !.ip6 = ai.ai_addr, !.rc = BitOr(@, 2)]
                   ELSE st
              ELSE st

\* the loop of addr_resolve (lines 649-695): while (walker && (rc != 3))
RECURSIVE Walk(_, _, _)
Walk(family, walker, st) ==
    IF walker # << >> /\ st.rc # 3
    THEN Walk(family, Tail(walker), WalkStep(family, Head(walker), st))
    ELSE st

\* addr_resolve (lines 600-718): the result and *to afterwards
addr_resolve(address, to) ==
    IF address = NULL \/ to = NULL
    THEN [ret |-> 0, to |-> to]
    ELSE LET family == to.family
             gai == getaddrinfo(address, family)
         IN  IF gai.rc # 0
             THEN [ret |-> 0, to |-> to]
             ELSE LET st == Walk(family, gai.server,
                                 [ip4 |-> <<0, 0, 0, 0>>, ip6 |-> Zero16, rc |-> gai.rc,
                                  to |-> to])
                  IN  IF st.to.family = AF_UNSPEC
                      THEN IF (st.rc \div 2) % 2 = 1
                           THEN [ret |-> st.rc, to |-> MkIP(AF_INET6, st.ip6)]
                           ELSE IF st.rc % 2 = 1
                                THEN [ret |-> st.rc,
                                      to |-> MkIP(AF_INET, SetIP4(st.to.u, st.ip4))]
                                ELSE [ret |-> 0, to |-> st.to]
                      ELSE [ret |-> st.rc, to |-> st.to]

\* addr_resolve_or_parse_ip (lines 727-734)
addr_resolve_or_parse_ip(address, to) ==
    IF addr_resolve(address, to).ret = 0
    THEN IF addr_parse_ip(address, to).ret = 0
         THEN [ret |-> 0, to |-> to]
         ELSE [ret |-> 1, to |-> addr_parse_ip(address, to).to]
    ELSE [ret |-> 1, to |-> addr_resolve(address, to).to]

\* A text the program builds is a sequence of pieces: [str |-> s] is the
\* characters s, [addr |-> a, lit |-> f] is the text inet_ntop(f, a) writes,
\* which inet_pton(f) reads back as a and inet_pton of the other family rejects.
Chars(s) == [str |-> s]

inet_ntop(af, addr) == [addr |-> addr, lit |-> af]

\* ip_ntoa (lines 508-538): the text left in addresstext
ip_ntoa(ip) ==
    IF ip = NULL
    THEN << Chars("(IP invalid: NULL)") >>
    ELSE IF ip.family = AF_INET
         THEN << inet_ntop(AF_INET, IP4Of(ip)) >>
         ELSE IF ip.family = AF_INET6
              THEN << Chars("[") >> \o << inet_ntop(AF_INET6, ip.u) >> \o << Chars("]") >>
              ELSE << Chars("(IP invalid, family "), Chars(ToString(ip.family)),
                      Chars(")") >>

\* what the C library makes of a text passed as an address string: a literal
\* when the text is exactly what inet_ntop writes for an address, and
\* otherwise not a literal of any family, nor a name with records
TextName(text) ==
    IF Len(text) = 1 /\ "lit" \in DOMAIN text[1] /\ text[1].lit = AF_INET
    THEN Name(AF_INET, << AddrInfo(AF_INET, SIZEOF_SOCKADDR_IN, text[1].addr) >>)
    ELSE IF Len(text) = 1 /\ "lit" \in DOMAIN text[1] /\ text[1].lit = AF_INET6
         THEN Name(AF_INET6, << AddrInfo(AF_INET6, SIZEOF_SOCKADDR_IN6, text[1].addr) >>)
         ELSE Name(AF_UNSPEC, << >>)

\* a caller formats an address
IpNtoa(ip) ==
    /\ out' = [ip |-> ip, op |-> "ip_ntoa", text |-> ip_ntoa(ip)]
    /\ UNCHANGED <<little_endian, netvars>>

\* a caller parses a literal, formats the address it got and parses the text
\* again, into an IP prepared like the first
ParseFormatParse(address, to) ==
    /\ addr_parse_ip(address, to).ret = 1
    /\ LET ip == addr_parse_ip(address, to).to
           again == addr_parse_ip(TextName(ip_ntoa(ip)), to)
       IN  out' = [address |-> address, ip |-> ip, op |-> "parse_format_parse",
                   ret |-> again.ret, text |-> ip_ntoa(ip), to |-> again.to]
    /\ UNCHANGED <<little_endian, netvars>>

\* a caller compares two addresses
IpEqual(a, b) ==
    /\ out' = [a |-> a, b |-> b, op |-> "ip_equal", ret |-> ip_equal(a, b)]
    /\ UNCHANGED <<little_endian, netvars>>

\* a caller resolves an address string, to->family holding the family it wants
AddrResolveOrParseIp(address, to) ==
    /\ out' = [address |-> address, family |-> to.family,
               op |-> "addr_resolve_or_parse_ip",
               ret |-> addr_resolve_or_parse_ip(address, to).ret,
               to |-> addr_resolve_or_parse_ip(address, to).to]
    /\ UNCHANGED <<little_endian, netvars>>

\* a caller resolves a name with addr_resolve, to->family holding the family
\* it wants
AddrResolve(address, to) ==
    /\ out' = [address |-> address, family |-> to.family, op |-> "addr_resolve",
               ret |-> addr_resolve(address, to).ret,
               to |-> addr_resolve(address, to).to]
    /\ UNCHANGED <<little_endian, netvars>>

\* where the ip4/ip6 union starts in an IP: the sa_family_t family comes
\* first, and the union holds uint32_t members (ip4.uint32, s6_addr32), so it
\* is aligned to 4 bytes
OffsetOfUnion == 4

\* memset(ip, 0, n) on an IP: the first n bytes of the object become zero
memset0(ip, n) ==
    MkIP(IF n >= 1 THEN 0 ELSE ip.family,
         [i \in 1..16 |-> IF OffsetOfUnion + i <= n THEN 0 ELSE ip.u[i]])

\* sizeof(*ip): the union and what precedes it
SizeofIP == OffsetOfUnion + Len(Zero16)

\* ip_reset (lines 433-443): *ip afterwards; ip is an IP or NULL
ip_reset(ip) ==
    IF ip = NULL THEN NULL ELSE memset0(ip, SizeofIP)

\* ip_init (lines 446-457): *ip afterwards.  The memset is given sizeof(ip),
\* the size of the pointer, which depends on the platform.
ip_init(ip, ipv6enabled, sizeof_ip) ==
    IF ip = NULL
    THEN NULL
    ELSE [memset0(ip, sizeof_ip) EXCEPT
            !.family = IF ipv6enabled # 0 THEN AF_INET6 ELSE AF_INET]

\* a caller resets an address
IpReset(ip) ==
    /\ out' = [ip |-> ip, op |-> "ip_reset", to |-> ip_reset(ip)]
    /\ UNCHANGED <<little_endian, netvars>>

\* a caller initialises an address, on a platform whose pointers have size
\* bytes
IpInit(ip, ipv6enabled, size) ==
    /\ out' = [flag |-> ipv6enabled, ip |-> ip, op |-> "ip_init", size |-> size,
               to |-> ip_init(ip, ipv6enabled, size)]
    /\ UNCHANGED <<little_endian, netvars>>

\* a caller asks whether an address is set
IpIsset(ip) ==
    /\ out' = [ip |-> ip, op |-> "ip_isset", ret |-> ip_isset(ip)]
    /\ UNCHANGED <<little_endian, netvars>>

\* a caller asks whether an endpoint is set
IpportIsset(ipport) ==
    /\ out' = [ip_port |-> ipport, op |-> "ipport_isset", ret |-> ipport_isset(ipport)]
    /\ UNCHANGED <<little_endian, netvars>>

V6b == [i \in 1..16 |-> IF i = 1 THEN 32 ELSE IF i = 2 THEN 1 ELSE i]

A4(ai_addr) == AddrInfo(AF_INET, SIZEOF_SOCKADDR_IN, ai_addr)

A6(ai_addr) == AddrInfo(AF_INET6, SIZEOF_SOCKADDR_IN6, ai_addr)

\* literals, host names with records of one family, of both in either order,
\* with several of a family, with an entry of a wrong length, and unknown ones
Names ==
    { Name(AF_INET, << A4(V4a) >>),
      Name(AF_INET6, << A6(V6a) >>),
      Name(AF_UNSPEC, << >>),
      Name(AF_UNSPEC, << A4(V4b) >>),
      Name(AF_UNSPEC, << A6(V6b) >>),
      Name(AF_UNSPEC, << A4(V4a), A6(V6a) >>),
      Name(AF_UNSPEC, << A6(V6a), A4(V4a) >>),
      Name(AF_UNSPEC, << A4(V4a), A4(V4b), A6(V6a), A6(V6b) >>),
      Name(AF_UNSPEC, << A4(V4a), A4(V4b) >>),
      Name(AF_UNSPEC, << A6(V6a), A6(V6b), A4(V4a) >>),
      Name(AF_UNSPEC, << AddrInfo(AF_INET, SIZEOF_SOCKADDR_IN6, V4a), A4(V4b) >>),
      Name(AF_UNSPEC, << AddrInfo(AF_OTHER, SIZEOF_SOCKADDR_IN, V4a) >>) }

\* the addresses compared: every family over values that share their first
\* four bytes or differ in them
EqualIPs ==
    { MkIP(f, u) : f \in {AF_UNSPEC, AF_INET, AF_INET6},
                   u \in {Zero16, SetIP4(Zero16, V4a), SetIP4(Tail170, V4a), V6a, V6b} }

\* *to as the caller prepared it: the family wanted, the rest zero or stale
ResolveTos == { MkIP(f, u) : f \in {AF_UNSPEC, AF_INET, AF_INET6}, u \in {Zero16, Tail170} }

\* the uint8_t flags ip_init is called with
InitFlags == { 0, 1, 255 }

\* sizeof(IP *) on the platforms the program is built for: 32-bit and 64-bit
PointerSizes == { 4, 8 }

\* the ports of the endpoints asked about, as the uint16_t in memory
IssetPorts == { 0, 1, 256, 33445 }

NextAddr ==
    \/ \E a \in EqualIPs \cup {NULL}, b \in EqualIPs \cup {NULL} : IpEqual(a, b)
    \/ \E address \in Names, to \in ResolveTos : AddrResolveOrParseIp(address, to)
    \/ \E address \in Names, to \in ResolveTos : AddrResolve(address, to)
    \/ \E ip \in EqualIPs \cup {NULL} : IpIsset(ip)
    \/ \E ip \in EqualIPs \cup {NULL} : IpReset(ip)
    \/ \E ip \in EqualIPs \cup {NULL}, ipv6enabled \in InitFlags, size \in PointerSizes :
          IpInit(ip, ipv6enabled, size)
    \/ \E ip \in EqualIPs \cup {NULL} : IpNtoa(ip)
    \/ \E address \in Names, to \in ResolveTos : ParseFormatParse(address, to)
    \/ \E ip \in EqualIPs, port \in IssetPorts : IpportIsset(IPPort(ip, port))
    \/ IpportIsset(NULL)

SpecAddr == Init /\ [][NextAddr]_vars

\* C5 as stated: resolving with preference IPv4 or IPv6 yields, whenever it
\* succeeds, an Address of exactly that family
C5_ResolveKeepsFamily ==
    (out.op = "addr_resolve_or_parse_ip" /\ out.family \in {AF_INET, AF_INET6}
        /\ out.ret # 0)
      => out.to.family = out.family

\* C6 as stated: ip_equal is symmetric, reflexive on IPv4 and IPv6 addresses,
\* and false when the families differ or one of them is Unspecified
C6_EqualSymmetricReflexiveSameFamily ==
    (out.op = "ip_equal" /\ out.a # NULL /\ out.b # NULL) =>
      /\ out.ret = ip_equal(out.b, out.a)
      /\ (out.a = out.b /\ out.a.family \in {AF_INET, AF_INET6}) => out.ret = 1
      /\ (out.a.family # out.b.family \/ out.a.family = AF_UNSPEC
            \/ out.b.family = AF_UNSPEC) => out.ret = 0

\* the value bytes of the family of an address are all zero
ZeroValue(ip) ==
    IF ip.family = AF_INET THEN IP4Of(ip) = <<0, 0, 0, 0>> ELSE ip.u = Zero16

\* C13 as stated: ip_isset is false for an Unspecified family and for an
\* all-zero value (0.0.0.0, ::), true otherwise; ipport_isset is true exactly
\* when the port is non-zero and the address is set in this sense
C13_IsSetFalseForZeroValue ==
    /\ (out.op = "ip_isset" /\ out.ip # NULL) =>
          (out.ret # 0 <=> (out.ip.family # AF_UNSPEC /\ ~ZeroValue(out.ip)))
    /\ (out.op = "ipport_isset" /\ out.ip_port # NULL) =>
          (out.ret # 0 <=> (/\ out.ip_port.port # 0
                            /\ out.ip_port.ip.family # AF_UNSPEC
                            /\ ~ZeroValue(out.ip_port.ip)))

\* the entries of a resolver result list addr_resolve can use for family f
Usable(records, f) ==
    SelectSeq(records,
              LAMBDA ai : /\ ai.ai_family = f
                          /\ ai.ai_addrlen = IF f = AF_INET THEN SIZEOF_SOCKADDR_IN
                                                            ELSE SIZEOF_SOCKADDR_IN6)

\* C14: addr_resolve with preference Either returns an IPv6 Address when the
\* result list has a usable IPv6 and a usable IPv4 entry, in any order; an
\* Address of the one family when only that family has a usable entry; and
\* fails when there is none
C14_EitherPrefersIPv6 ==
    (out.op = "addr_resolve" /\ out.family = AF_UNSPEC) =>
      LET u4 == Usable(out.address.records, AF_INET)
          u6 == Usable(out.address.records, AF_INET6)
      IN  /\ u6 # << >> => (out.ret # 0 /\ out.to.family = AF_INET6)
          /\ (u6 = << >> /\ u4 # << >>) => (out.ret # 0 /\ out.to.family = AF_INET)
          /\ (u6 = << >> /\ u4 = << >>) => out.ret = 0

\* a name whose IPv4 entry comes first resolved, with preference Either, to
\* its IPv6 address
C14_Witness ==
    /\ out.op = "addr_resolve"
    /\ out.family = AF_UNSPEC
    /\ out.address.records = << A4(V4a), A6(V6a) >>
    /\ out.ret # 0
    /\ out.to = MkIP(AF_INET6, V6a)

\* C15 as stated: the Address addr_resolve returns is the first usable entry
\* of the returned family in resolver order, for every preference
C15_FirstUsableResultWins ==
    (out.op = "addr_resolve" /\ out.ret # 0) =>
      LET u == Usable(out.address.records, out.to.family) IN
        /\ u # << >>
        /\ IF out.to.family = AF_INET THEN IP4Of(out.to) = u[1].ai_addr
                                      ELSE out.to.u = u[1].ai_addr

\* C18 as stated: for every valid IPv4 and IPv6 literal, parsing it,
\* formatting the result and parsing the formatted text again succeeds and
\* yields an Address equal to the first one
C18_ParseFormatParseRoundTrips ==
    out.op = "parse_format_parse" =>
      /\ out.ret = 1
      /\ out.to.family = out.ip.family
      /\ ip_equal(out.to, out.ip) = 1

\* C21 as stated: after ip_init every value byte of the address is zero, the
\* family is IPv6 if ipv6enabled is non-zero and IPv4 otherwise, and the
\* result is that of ip_reset followed by setting the family
C21_InitNullsWholeAddress ==
    (out.op = "ip_init" /\ out.ip # NULL) =>
      /\ out.to.family = (IF out.flag # 0 THEN AF_INET6 ELSE AF_INET)
      /\ out.to.u = Zero16
      /\ out.to = [ip_reset(out.ip) EXCEPT !.family = out.to.family]

====
